---- MODULE Spec2Model ----
(***************************************************************************)
(* Ledger and settlement core of the FU MONEY wagering bot                 *)
(* (src/index.js, src/utils/sqliteDB.js).                                  *)
(*                                                                         *)
(* The store is the SQLite table `users` and the single `jackpot` row.     *)
(* Every handler is an async function: it runs atomically between two      *)
(* awaited store calls and may be interleaved with any other handler at    *)
(* each of them.  A handler instance is a slot of `procs`; its pc names    *)
(* the store call it performs next, its other fields are the handler's     *)
(* local constants (user, newUsdcBalance, currentJackpot, ...).            *)
(*                                                                         *)
(* Amounts are whole coins.  Every stake of the play scene is a multiple   *)
(* of 5, so 3.6 * stake is a whole number, and parseFloat(x.toFixed(6))    *)
(* returns a whole number unchanged.                                       *)
(***************************************************************************)
EXTENDS Integers, Sequences, FiniteSets, TLC

\* ------------------------------------------------------------------ bounds
MaxProcs == 2          \* handler instances in flight at the same time
MaxOps == 2            \* handler invocations in one behaviour

\* ------------------------------------------------------- program constants
JackpotStake == 100
BonusUSDC == 10
WinXP == 20
LoseXP == 5
JackpotWinXP == 50
JackpotLoseXP == 10
DepositXP == 15
JackpotOfferBalance == 100
MaxRewardLevel == 10
MAX_ETH_WITHDRAWAL == 100
MAX_USDC_WITHDRAWAL == 10000

BetAmounts == {5, 10, 100, 1000, 10000}

\* the payout the README announces: 2x the bet amount
Payout_Double(betAmount) == betAmount * 2

\* a payout without house edge: 4x the bet amount
Payout_Fourfold(betAmount) == betAmount * 4

\* payout = betAmount * 3.6
Payout(betAmount) == (betAmount * 36) \div 10

\* ------------------------------------------------------------- identities
Ids == {1, 2}
\* ctx.from.id of an update: an account, or an identity without a row
Callers == Ids \cup {3}
Procs == 1..MaxProcs
Assets == {"usdc", "eth"}
WalletOf(id) == IF id = 1 THEN "a1" ELSE "a2"
Addresses == {"a1", "a2", "a9"}
\* event.transactionHash / tx.hash of an on-chain transfer
TxHashes == {"t1", "t2"}

VARIABLES
  users,       \* table users: telegram_id -> row
  jackpot,     \* table jackpot, row id = 1: amount
  procs,       \* handler instances and their local constants
  session,     \* ctx.session.state of each identity
  sent,        \* amount of each asset transferred on-chain to each identity
  sched,       \* "interleaved": handlers overlap; "serial": one at a time
  init0,       \* the ledger the behaviour started from
  nStarted     \* handler invocations so far

vars == <<users, jackpot, procs, session, sent, sched, init0, nStarted>>

\* ---------------------------------------------------------------- helpers
RECURSIVE Pow(_, _)
Pow(b, n) == IF n = 0 THEN 1 ELSE b * Pow(b, n - 1)

\* a threshold that does not grow with the level
getXPForNextLevel_NoGrowth(currentLevel) == 100

\* a threshold of a tenth: Math.floor(10 * Math.pow(1.5, currentLevel - 1))
getXPForNextLevel_Tenth(currentLevel) ==
  (10 * Pow(3, currentLevel - 1)) \div Pow(2, currentLevel - 1)

\* Math.floor(100 * Math.pow(1.5, currentLevel - 1))
getXPForNextLevel(currentLevel) ==
  (100 * Pow(3, currentLevel - 1)) \div Pow(2, currentLevel - 1)

\* a loop that compares with > instead of >=
RECURSIVE LevelLoop_Strict(_, _, _)
LevelLoop_Strict(newXP, newLevel, levelUp) ==
  IF newXP > getXPForNextLevel(newLevel)
  THEN LevelLoop_Strict(newXP - getXPForNextLevel(newLevel), newLevel + 1,
                        TRUE)
  ELSE [newXP |-> newXP, newLevel |-> newLevel, levelUp |-> levelUp]

\* an if in place of the while: at most one level per call
LevelLoop_Once(newXP, newLevel, levelUp) ==
  IF newXP >= getXPForNextLevel(newLevel)
  THEN [newXP |-> newXP - getXPForNextLevel(newLevel),
        newLevel |-> newLevel + 1, levelUp |-> TRUE]
  ELSE [newXP |-> newXP, newLevel |-> newLevel, levelUp |-> levelUp]

\* the while loop of addUserXP
RECURSIVE LevelLoop(_, _, _)
LevelLoop(newXP, newLevel, levelUp) ==
  IF newXP >= getXPForNextLevel(newLevel)
  THEN LevelLoop(newXP - getXPForNextLevel(newLevel), newLevel + 1, TRUE)
  ELSE [newXP |-> newXP, newLevel |-> newLevel, levelUp |-> levelUp]

\* levels[newLevel]?.reward contains 'USDC'
HasUsdcReward(newLevel) == newLevel \in 1..MaxRewardLevel

NoUserRow ==
  [registered |-> FALSE, wallet |-> "none", eth |-> 0, usdc |-> 0,
   xp |-> 0, level |-> 1,
   total_bets |-> 0, total_amount_bet |-> 0, total_wins |-> 0,
   total_losses |-> 0, total_usdc_won |-> 0, total_usdc_lost |-> 0,
   highest_single_bet |-> 0]

Idle ==
  [kind |-> "idle", pc |-> "idle", id |-> 0, asset |-> "none", amt |-> 0,
   ubal |-> 0, newBal |-> 0, curJp |-> 0, newJp |-> 0, result |-> "none",
   paid |-> 0, xpAdd |-> 0, newXP |-> 0, newLevel |-> 0, levelUp |-> FALSE,
   rbal |-> 0, rjp |-> 0, rewarded |-> FALSE, wallet |-> "none",
   tx |-> "none", notice |-> "none", data |-> "none", outcome |-> "none"]

Free(p) == procs[p].pc \in {"idle", "done"}
Active(p) == ~Free(p)
Quiescent == \A p \in Procs : Free(p)

\* the slot a new handler instance takes
CanStart(p) ==
  /\ Free(p)
  /\ \A q \in Procs : q < p => Active(q)
  /\ nStarted < MaxOps
  /\ sched = "serial" => Quiescent

\* a finished handler keeps what it was asked and what it answered; its
\* local constants are gone
Finish(rec, outcome) ==
  [Idle EXCEPT !.kind = rec.kind, !.pc = "done", !.id = rec.id,
               !.asset = rec.asset, !.amt = rec.amt, !.result = rec.result,
               !.paid = rec.paid, !.rewarded = rec.rewarded,
               !.wallet = rec.wallet, !.tx = rec.tx, !.notice = rec.notice,
               !.data = rec.data, !.outcome = outcome]

Set(p, rec) == procs' = [procs EXCEPT ![p] = rec]

\* where a handler continues once addUserXP and applyLevelRewards returned
AfterXP(rec) ==
  IF rec.kind = "bet" THEN [rec EXCEPT !.pc = "hb_stats"]
  ELSE Finish(rec, rec.result)

\* ------------------------------------------------------------- handleBet
\* handleBet without the check user.usdc_balance < betAmount
HandleBetBegin_NoFundsCheck(p, id, betAmount) ==
  /\ CanStart(p)
  /\ LET user == users[id]
         rec == [Idle EXCEPT !.kind = "bet", !.id = id, !.asset = "usdc",
                             !.amt = betAmount]
     IN Set(p, IF ~user.registered THEN Finish(rec, "not_registered")
               ELSE [rec EXCEPT !.pc = "hb_debit", !.ubal = user.usdc,
                                !.newBal = user.usdc - betAmount])
  /\ nStarted' = nStarted + 1
  /\ UNCHANGED <<users, jackpot, session, sent, sched, init0>>

\* playScene callback bet_usdc_<betAmount>: getUserByTelegramId and the checks
HandleBetBegin(p, id, betAmount) ==
  /\ CanStart(p)
  /\ LET user == users[id]
         rec == [Idle EXCEPT !.kind = "bet", !.id = id, !.asset = "usdc",
                             !.amt = betAmount]
     IN Set(p, IF ~user.registered THEN Finish(rec, "not_registered")
               ELSE IF user.usdc < betAmount THEN Finish(rec, "insufficient")
               ELSE [rec EXCEPT !.pc = "hb_debit", !.ubal = user.usdc,
                                !.newBal = user.usdc - betAmount])
  /\ nStarted' = nStarted + 1
  /\ UNCHANGED <<users, jackpot, session, sent, sched, init0>>

\* updateUserUsdcBalance(telegramId, newUsdcBalance)
HandleBetDebit(p) ==
  /\ procs[p].pc = "hb_debit"
  /\ users' = [users EXCEPT ![procs[p].id].usdc = procs[p].newBal]
  /\ Set(p, [procs[p] EXCEPT !.pc = "hb_getJackpot"])
  /\ UNCHANGED <<jackpot, session, sent, sched, init0, nStarted>>

\* currentJackpot = getJackpot(); newJackpot = currentJackpot + betAmount
HandleBetGetJackpot(p) ==
  /\ procs[p].pc = "hb_getJackpot"
  /\ Set(p, [procs[p] EXCEPT !.pc = "hb_setJackpot", !.curJp = jackpot,
                             !.newJp = jackpot + procs[p].amt])
  /\ UNCHANGED <<users, jackpot, session, sent, sched, init0, nStarted>>

\* updateJackpot(newJackpot), then the draw rng < 0.25
HandleBetSetJackpot(p) ==
  /\ procs[p].pc = "hb_setJackpot"
  /\ jackpot' = procs[p].newJp
  /\ \E win \in BOOLEAN :
       Set(p, IF win
              THEN [procs[p] EXCEPT !.pc = "hb_credit", !.result = "win",
                                    !.paid = Payout(procs[p].amt)]
              ELSE [procs[p] EXCEPT !.pc = "xp_get", !.result = "lose",
                                    !.xpAdd = LoseXP])
  /\ UNCHANGED <<users, session, sent, sched, init0, nStarted>>

\* win: updateUserUsdcBalance(telegramId, newUsdcBalance + payout)
HandleBetCredit(p) ==
  /\ procs[p].pc = "hb_credit"
  /\ users' = [users EXCEPT
                 ![procs[p].id].usdc = procs[p].newBal + procs[p].paid]
  /\ Set(p, [procs[p] EXCEPT !.pc = "hb_payPool"])
  /\ UNCHANGED <<jackpot, session, sent, sched, init0, nStarted>>

\* the win path without the deduction of the payout from the pool
HandleBetPayPool_NoDeduct(p) ==
  /\ procs[p].pc = "hb_payPool"
  /\ jackpot' = jackpot
  /\ Set(p, IF procs[p].newBal + procs[p].paid >= JackpotOfferBalance
            THEN Finish(procs[p], "jackpot_offer")
            ELSE [procs[p] EXCEPT !.pc = "xp_get", !.xpAdd = WinXP])
  /\ UNCHANGED <<users, session, sent, sched, init0, nStarted>>

\* win: updateJackpot(newJackpot - payout); the jackpot offer ends the handler
HandleBetPayPool(p) ==
  /\ procs[p].pc = "hb_payPool"
  /\ jackpot' = procs[p].newJp - procs[p].paid
  /\ Set(p, IF procs[p].newBal + procs[p].paid >= JackpotOfferBalance
            THEN Finish(procs[p], "jackpot_offer")
            ELSE [procs[p] EXCEPT !.pc = "xp_get", !.xpAdd = WinXP])
  /\ UNCHANGED <<users, session, sent, sched, init0, nStarted>>

\* a statistics update that counts the wager but not a loss
HandleBetStats_NoLossCount(p) ==
  /\ procs[p].pc = "hb_stats"
  /\ LET id == procs[p].id
         u == users[id]
         betAmount == procs[p].amt
         isWin == procs[p].result = "win"
     IN users' = [users EXCEPT ![id] =
          [u EXCEPT
             !.total_bets = u.total_bets + 1,
             !.total_amount_bet = u.total_amount_bet + betAmount,
             !.total_wins = u.total_wins + (IF isWin THEN 1 ELSE 0),
             !.total_usdc_won =
                u.total_usdc_won + (IF isWin THEN procs[p].paid ELSE 0),
             !.total_usdc_lost =
                u.total_usdc_lost + (IF isWin THEN 0 ELSE betAmount),
             !.highest_single_bet =
                IF betAmount > u.highest_single_bet THEN betAmount
                ELSE u.highest_single_bet]]
  /\ Set(p, Finish(procs[p], procs[p].result))
  /\ UNCHANGED <<jackpot, session, sent, sched, init0, nStarted>>

\* updateUserStatsAfterBet(telegramId, betAmount, isWin, payout)
HandleBetStats(p) ==
  /\ procs[p].pc = "hb_stats"
  /\ LET id == procs[p].id
         u == users[id]
         betAmount == procs[p].amt
         isWin == procs[p].result = "win"
     IN users' = [users EXCEPT ![id] =
          [u EXCEPT
             !.total_bets = u.total_bets + 1,
             !.total_amount_bet = u.total_amount_bet + betAmount,
             !.total_wins = u.total_wins + (IF isWin THEN 1 ELSE 0),
             !.total_losses = u.total_losses + (IF isWin THEN 0 ELSE 1),
             !.total_usdc_won =
                u.total_usdc_won + (IF isWin THEN procs[p].paid ELSE 0),
             !.total_usdc_lost =
                u.total_usdc_lost + (IF isWin THEN 0 ELSE betAmount),
             !.highest_single_bet =
                IF betAmount > u.highest_single_bet THEN betAmount
                ELSE u.highest_single_bet]]
  /\ Set(p, Finish(procs[p], procs[p].result))
  /\ UNCHANGED <<jackpot, session, sent, sched, init0, nStarted>>

\* a store call of handleBet rejects: the catch block replies and logs
HandleBetStoreFails(p) ==
  /\ procs[p].kind = "bet"
  /\ procs[p].pc \in {"hb_debit", "hb_getJackpot", "hb_setJackpot",
                      "hb_credit", "hb_payPool", "hb_stats"}
  /\ Set(p, Finish(procs[p], "error"))
  /\ UNCHANGED <<users, jackpot, session, sent, sched, init0, nStarted>>

\* ------------------------------------------- playScene, 'callback_query'
\* a dispatch that reads the stake out of any bet_usdc_<n> data
PlayBet_ParseAny(data) ==
  CASE data = "bet_usdc_5" -> 5
    [] data = "bet_usdc_7" -> 7
    [] data = "bet_usdc_10" -> 10
    [] data = "bet_usdc_100" -> 100
    [] data = "bet_usdc_1000" -> 1000
    [] data = "bet_usdc_10000" -> 10000
    [] OTHER -> 0

\* the stake of the case that matches the callback data, 0 when none does
PlayBet(data) ==
  CASE data = "bet_usdc_5" -> 5
    [] data = "bet_usdc_10" -> 10
    [] data = "bet_usdc_100" -> 100
    [] data = "bet_usdc_1000" -> 1000
    [] data = "bet_usdc_10000" -> 10000
    [] OTHER -> 0

\* the switch on the callback data
PlaySceneCallback(p, id, data) ==
  IF PlayBet(data) # 0
  THEN HandleBetBegin(p, id, PlayBet(data))
  ELSE /\ CanStart(p)
       /\ Set(p, Finish([Idle EXCEPT !.kind = "play", !.id = id,
                                     !.data = data],
                        IF data = "main_menu" THEN "main_menu"
                        ELSE "unknown_action"))
       /\ nStarted' = nStarted + 1
       /\ UNCHANGED <<users, jackpot, session, sent, sched, init0>>

\* ------------------------------------------------------------- addUserXP
\* addUserXP(telegramId, xp) called with an arbitrary award
AddUserXPCall(p, id, xp) ==
  /\ CanStart(p)
  /\ users[id].registered
  /\ Set(p, [Idle EXCEPT !.kind = "xp", !.id = id, !.pc = "xp_get",
                         !.amt = xp, !.xpAdd = xp])
  /\ nStarted' = nStarted + 1
  /\ UNCHANGED <<users, jackpot, session, sent, sched, init0>>

\* getUserByTelegramId and the level-up loop
AddUserXPGet(p) ==
  /\ procs[p].pc = "xp_get"
  /\ LET user == users[procs[p].id]
         r == LevelLoop(user.xp + procs[p].xpAdd, user.level, FALSE)
     IN Set(p, [procs[p] EXCEPT !.pc = "xp_set", !.newXP = r.newXP,
                                !.newLevel = r.newLevel,
                                !.levelUp = r.levelUp])
  /\ UNCHANGED <<users, jackpot, session, sent, sched, init0, nStarted>>

\* UPDATE users SET xp = ?, level = ?; the caller's .then branch
AddUserXPSet(p) ==
  /\ procs[p].pc = "xp_set"
  /\ users' = [users EXCEPT ![procs[p].id].xp = procs[p].newXP,
                            ![procs[p].id].level = procs[p].newLevel]
  /\ Set(p, IF procs[p].levelUp /\ HasUsdcReward(procs[p].newLevel)
            THEN [procs[p] EXCEPT !.pc = "lr_funded"]
            ELSE AfterXP([procs[p] EXCEPT !.notice =
                            IF procs[p].levelUp THEN "congratulations"
                            ELSE "xp_earned"]))
  /\ UNCHANGED <<jackpot, session, sent, sched, init0, nStarted>>

\* ----------------------------------------------------- applyLevelRewards
\* applyLevelRewards that never finds the pool short
RewardIsPoolFunded_Always(p) ==
  /\ procs[p].pc = "lr_funded"
  /\ Set(p, [procs[p] EXCEPT !.pc = "lr_getUser"])
  /\ UNCHANGED <<users, jackpot, session, sent, sched, init0, nStarted>>

\* isPoolFunded(bonusUSDC); the "Insufficient funds in the pool" message
RewardIsPoolFunded(p) ==
  /\ procs[p].pc = "lr_funded"
  /\ Set(p, IF jackpot >= BonusUSDC
            THEN [procs[p] EXCEPT !.pc = "lr_getUser"]
            ELSE AfterXP([procs[p] EXCEPT !.notice = "insufficient_pool"]))
  /\ UNCHANGED <<users, jackpot, session, sent, sched, init0, nStarted>>

\* user = getUserByTelegramId(telegramId)
RewardGetUser(p) ==
  /\ procs[p].pc = "lr_getUser"
  /\ Set(p, [procs[p] EXCEPT !.pc = "lr_setUser",
                             !.rbal = users[procs[p].id].usdc])
  /\ UNCHANGED <<users, jackpot, session, sent, sched, init0, nStarted>>

\* updateUserUsdcBalance(telegramId, user.usdc_balance + bonusUSDC)
RewardSetUser(p) ==
  /\ procs[p].pc = "lr_setUser"
  /\ users' = [users EXCEPT ![procs[p].id].usdc = procs[p].rbal + BonusUSDC]
  /\ Set(p, [procs[p] EXCEPT !.pc = "lr_getJackpot", !.rewarded = TRUE])
  /\ UNCHANGED <<jackpot, session, sent, sched, init0, nStarted>>

\* await getJackpot() - bonusUSDC
RewardGetJackpot(p) ==
  /\ procs[p].pc = "lr_getJackpot"
  /\ Set(p, [procs[p] EXCEPT !.pc = "lr_setJackpot", !.rjp = jackpot])
  /\ UNCHANGED <<users, jackpot, session, sent, sched, init0, nStarted>>

\* updateJackpot(newJackpot); the "You've received a bonus" message
RewardSetJackpot(p) ==
  /\ procs[p].pc = "lr_setJackpot"
  /\ jackpot' = procs[p].rjp - BonusUSDC
  /\ Set(p, AfterXP([procs[p] EXCEPT !.notice = "bonus"]))
  /\ UNCHANGED <<users, session, sent, sched, init0, nStarted>>

\* ------------------------------------------- jackpotScene, 'jackpot_yes'
\* a jackpot bet that writes the debit before it checks the balance
JackpotBegin_DebitFirst(p, id) ==
  /\ CanStart(p)
  /\ LET user == users[id]
         rec == [Idle EXCEPT !.kind = "jackpot", !.id = id, !.asset = "usdc",
                             !.amt = JackpotStake]
     IN /\ users' = [users EXCEPT ![id].usdc =
                       IF user.registered THEN user.usdc - JackpotStake
                       ELSE user.usdc]
        /\ Set(p, IF ~user.registered THEN Finish(rec, "not_registered")
                  ELSE IF user.usdc < JackpotStake
                       THEN Finish(rec, "insufficient")
                  ELSE [rec EXCEPT !.pc = "jp_getJackpot",
                                   !.ubal = user.usdc,
                                   !.newBal = user.usdc - JackpotStake])
  /\ nStarted' = nStarted + 1
  /\ UNCHANGED <<jackpot, session, sent, sched, init0>>

\* getUserByTelegramId and the checks
JackpotBegin(p, id) ==
  /\ CanStart(p)
  /\ LET user == users[id]
         rec == [Idle EXCEPT !.kind = "jackpot", !.id = id, !.asset = "usdc",
                             !.amt = JackpotStake]
     IN Set(p, IF ~user.registered THEN Finish(rec, "not_registered")
               ELSE IF user.usdc < JackpotStake
                    THEN Finish(rec, "insufficient")
               ELSE [rec EXCEPT !.pc = "jp_debit", !.ubal = user.usdc,
                                !.newBal = user.usdc - JackpotStake])
  /\ nStarted' = nStarted + 1
  /\ UNCHANGED <<users, jackpot, session, sent, sched, init0>>

\* updateUserUsdcBalance(telegramId, newUsdcBalance)
JackpotDebit(p) ==
  /\ procs[p].pc = "jp_debit"
  /\ users' = [users EXCEPT ![procs[p].id].usdc = procs[p].newBal]
  /\ Set(p, [procs[p] EXCEPT !.pc = "jp_getJackpot"])
  /\ UNCHANGED <<jackpot, session, sent, sched, init0, nStarted>>

\* currentJackpot = getJackpot(); newJackpot = currentJackpot + 100
JackpotGetJackpot(p) ==
  /\ procs[p].pc = "jp_getJackpot"
  /\ Set(p, [procs[p] EXCEPT !.pc = "jp_setJackpot", !.curJp = jackpot,
                             !.newJp = jackpot + JackpotStake])
  /\ UNCHANGED <<users, jackpot, session, sent, sched, init0, nStarted>>

\* the win path without the check jackpotAmount <= 0
JackpotSetJackpot_NoEmptyCheck(p) ==
  /\ procs[p].pc = "jp_setJackpot"
  /\ jackpot' = procs[p].newJp
  /\ \E win \in BOOLEAN :
       Set(p, IF win
              THEN [procs[p] EXCEPT !.pc = "jp_reset", !.result = "win",
                                    !.paid = procs[p].curJp]
              ELSE [procs[p] EXCEPT !.pc = "xp_get", !.result = "lose",
                                    !.xpAdd = JackpotLoseXP])
  /\ UNCHANGED <<users, session, sent, sched, init0, nStarted>>

\* updateJackpot(newJackpot), the draw rng < 0.03, jackpotAmount <= 0
JackpotSetJackpot(p) ==
  /\ procs[p].pc = "jp_setJackpot"
  /\ jackpot' = procs[p].newJp
  /\ \E win \in BOOLEAN :
       Set(p, IF win
              THEN IF procs[p].curJp <= 0
                   THEN Finish([procs[p] EXCEPT !.result = "win"],
                               "pool_empty")
                   ELSE [procs[p] EXCEPT !.pc = "jp_reset", !.result = "win",
                                         !.paid = procs[p].curJp]
              ELSE [procs[p] EXCEPT !.pc = "xp_get", !.result = "lose",
                                    !.xpAdd = JackpotLoseXP])
  /\ UNCHANGED <<users, session, sent, sched, init0, nStarted>>

\* a win that takes its payout out of the pool and leaves the stake there
JackpotReset_KeepStake(p) ==
  /\ procs[p].pc = "jp_reset"
  /\ jackpot' = procs[p].newJp - procs[p].paid
  /\ Set(p, [procs[p] EXCEPT !.pc = "jp_credit"])
  /\ UNCHANGED <<users, session, sent, sched, init0, nStarted>>

\* win: updateJackpot(0)
JackpotReset(p) ==
  /\ procs[p].pc = "jp_reset"
  /\ jackpot' = 0
  /\ Set(p, [procs[p] EXCEPT !.pc = "jp_credit"])
  /\ UNCHANGED <<users, session, sent, sched, init0, nStarted>>

\* win: updateUserUsdcBalance(telegramId, newUsdcBalance + jackpotAmount)
JackpotCredit(p) ==
  /\ procs[p].pc = "jp_credit"
  /\ users' = [users EXCEPT
                 ![procs[p].id].usdc = procs[p].newBal + procs[p].paid]
  /\ Set(p, [procs[p] EXCEPT !.pc = "xp_get", !.xpAdd = JackpotWinXP])
  /\ UNCHANGED <<jackpot, session, sent, sched, init0, nStarted>>

\* ------------------------------------------------------------ registration
\* ethers.utils.isAddress(walletAddress)
isAddress(walletAddress) == walletAddress \in Addresses

\* an upsert whose table has no UNIQUE constraint on wallet_address
addOrUpdateUser_NoUnique(table, telegramId, walletAddress) ==
  [ok |-> TRUE,
   users |-> [table EXCEPT ![telegramId] =
                IF table[telegramId].registered
                THEN [@ EXCEPT !.wallet = walletAddress]
                ELSE [NoUserRow EXCEPT !.registered = TRUE,
                                       !.wallet = walletAddress]]]

\* an upsert written as INSERT OR REPLACE: the row starts over
addOrUpdateUser_Replace(table, telegramId, walletAddress) ==
  IF \E other \in Callers \ {telegramId} :
       table[other].registered /\ table[other].wallet = walletAddress
  THEN [ok |-> FALSE, users |-> table]
  ELSE [ok |-> TRUE,
        users |-> [table EXCEPT ![telegramId] =
                     [NoUserRow EXCEPT !.registered = TRUE,
                                       !.wallet = walletAddress]]]

\* INSERT INTO users ... ON CONFLICT(telegram_id) DO UPDATE SET
\* wallet_address = excluded.wallet_address; wallet_address is UNIQUE
addOrUpdateUser(table, telegramId, walletAddress) ==
  IF \E other \in Callers \ {telegramId} :
       table[other].registered /\ table[other].wallet = walletAddress
  THEN [ok |-> FALSE, users |-> table]
  ELSE [ok |-> TRUE,
        users |-> [table EXCEPT ![telegramId] =
                     IF table[telegramId].registered
                     THEN [@ EXCEPT !.wallet = walletAddress]
                     ELSE [NoUserRow EXCEPT !.registered = TRUE,
                                            !.wallet = walletAddress]]]

\* addOrUpdateUser(telegramId, username, walletAddress) called for any
\* identity, with or without a row
AddOrUpdateUserCall(p, id, walletAddress) ==
  /\ CanStart(p)
  /\ LET rec == [Idle EXCEPT !.kind = "upsert", !.id = id,
                             !.wallet = walletAddress]
         r == addOrUpdateUser(users, id, walletAddress)
     IN /\ users' = r.users
        /\ Set(p, Finish(rec, IF r.ok THEN "stored" ELSE "error"))
  /\ nStarted' = nStarted + 1
  /\ UNCHANGED <<jackpot, session, sent, sched, init0>>

\* registrationScene.on('text'); /start enters the scene only for an
\* identity that had no row
RegistrationText(p, id, walletAddress) ==
  /\ CanStart(p)
  /\ ~init0.users[id].registered
  /\ LET rec == [Idle EXCEPT !.kind = "register", !.id = id,
                             !.wallet = walletAddress]
         r == addOrUpdateUser(users, id, walletAddress)
     IN IF ~isAddress(walletAddress)
        THEN users' = users /\ Set(p, Finish(rec, "invalid_address"))
        ELSE /\ users' = r.users
             /\ Set(p, Finish(rec, IF r.ok THEN "registered" ELSE "error"))
  /\ nStarted' = nStarted + 1
  /\ UNCHANGED <<jackpot, session, sent, sched, init0>>

\* ------------------------------------------------------------ withdrawals
Awaiting(asset) ==
  IF asset = "eth" THEN "awaiting_eth_withdrawal"
  ELSE "awaiting_usdc_withdrawal"

\* withdrawScene callback 'withdraw_eth' / 'withdraw_usdc'
WithdrawSelect(id, asset) ==
  /\ sched = "serial" => Quiescent
  /\ nStarted < MaxOps
  /\ session[id] # Awaiting(asset)
  /\ session' = [session EXCEPT ![id] = Awaiting(asset)]
  /\ nStarted' = nStarted + 1
  /\ UNCHANGED <<users, jackpot, procs, sent, sched, init0>>

AwaitedAsset(state) ==
  IF state = "awaiting_eth_withdrawal" THEN "eth"
  ELSE IF state = "awaiting_usdc_withdrawal" THEN "usdc" ELSE "none"

MaxWithdrawal(asset) ==
  IF asset = "eth" THEN MAX_ETH_WITHDRAWAL ELSE MAX_USDC_WITHDRAWAL

\* isValidAmount(input), with input the decimal text of amount
isValidAmount(amount) == amount > 0

\* a withdrawal that dispatches the transfer before it checks the balance
WithdrawBegin_TransferFirst(p, id, amount) ==
  /\ CanStart(p)
  /\ LET user == users[id]
         asset == AwaitedAsset(session[id])
         rec == [Idle EXCEPT !.kind = "withdraw", !.id = id, !.amt = amount]
         checked == user.registered /\ asset # "none" /\ isValidAmount(amount)
                    /\ amount <= MaxWithdrawal(asset)
     IN /\ sent' = IF checked
                   THEN [sent EXCEPT ![user.wallet][asset] = @ + amount]
                   ELSE sent
        /\ Set(p,
             IF ~user.registered THEN Finish(rec, "not_registered")
             ELSE IF asset = "none" THEN Finish(rec, "unrecognized")
             ELSE IF ~isValidAmount(amount)
                  THEN Finish([rec EXCEPT !.asset = asset], "invalid_input")
             ELSE IF amount > MaxWithdrawal(asset)
                  THEN Finish([rec EXCEPT !.asset = asset], "over_limit")
             ELSE IF user[asset] < amount
                  THEN Finish([rec EXCEPT !.asset = asset], "insufficient")
             ELSE [rec EXCEPT !.pc = "wd_debit", !.asset = asset,
                              !.ubal = user[asset], !.wallet = user.wallet,
                              !.newBal = user[asset] - amount])
  /\ nStarted' = nStarted + 1
  /\ UNCHANGED <<users, jackpot, session, sched, init0>>

\* withdrawScene callback 'main_menu': ctx.scene.leave() and the main menu;
\* ctx.session.state is not touched
WithdrawMainMenu(p, id) ==
  /\ CanStart(p)
  /\ Set(p, Finish([Idle EXCEPT !.kind = "withdraw_menu", !.id = id,
                                !.data = "main_menu"], "main_menu"))
  /\ nStarted' = nStarted + 1
  /\ UNCHANGED <<users, jackpot, session, sent, sched, init0>>

\* bot.on('text'): getUserByTelegramId, session state, the three checks
WithdrawBegin(p, id, amount) ==
  /\ CanStart(p)
  /\ LET user == users[id]
         asset == AwaitedAsset(session[id])
         rec == [Idle EXCEPT !.kind = "withdraw", !.id = id, !.amt = amount]
     IN Set(p,
          IF ~user.registered THEN Finish(rec, "not_registered")
          ELSE IF asset = "none" THEN Finish(rec, "unrecognized")
          ELSE IF ~isValidAmount(amount)
               THEN Finish([rec EXCEPT !.asset = asset], "invalid_input")
          ELSE IF amount > MaxWithdrawal(asset)
               THEN Finish([rec EXCEPT !.asset = asset], "over_limit")
          ELSE IF user[asset] < amount
               THEN Finish([rec EXCEPT !.asset = asset], "insufficient")
          ELSE [rec EXCEPT !.pc = "wd_transfer", !.asset = asset,
                           !.ubal = user[asset], !.wallet = user.wallet,
                           !.newBal = user[asset] - amount])
  /\ nStarted' = nStarted + 1
  /\ UNCHANGED <<users, jackpot, session, sent, sched, init0>>

\* withdrawETH / withdrawUSDC(user.wallet_address, amount): the transfer of
\* the whole amount to the user's address succeeds, or it throws
WithdrawTransfer(p) ==
  /\ procs[p].pc = "wd_transfer"
  /\ \E ok \in BOOLEAN :
       IF ok
       THEN /\ sent' = [sent EXCEPT ![procs[p].wallet][procs[p].asset] =
                                       @ + procs[p].amt]
            /\ Set(p, [procs[p] EXCEPT !.pc = "wd_debit"])
       ELSE /\ sent' = sent
            /\ Set(p, Finish(procs[p], "transfer_failed"))
  /\ UNCHANGED <<users, jackpot, session, sched, init0, nStarted>>

\* updateUserEthBalance / updateUserUsdcBalance(telegramId, user.balance -
\* amount); ctx.session.state = null
WithdrawDebit(p) ==
  /\ procs[p].pc = "wd_debit"
  /\ users' = [users EXCEPT ![procs[p].id][procs[p].asset] = procs[p].newBal]
  /\ session' = [session EXCEPT ![procs[p].id] = "none"]
  /\ Set(p, Finish(procs[p], "withdrawn"))
  /\ UNCHANGED <<jackpot, sent, sched, init0, nStarted>>

\* --------------------------------------------------------------- deposits
\* a lookup that falls back to the registered accounts when no row matches
LookupByWallet_AnyAccount(from) ==
  IF \E id \in Ids : users[id].registered /\ users[id].wallet = from
  THEN {id \in Ids : users[id].registered /\ users[id].wallet = from}
  ELSE {id \in Ids : users[id].registered}

\* SELECT telegram_id FROM users WHERE wallet_address = ?
LookupByWallet(from) == {id \in Ids : users[id].registered
                                      /\ users[id].wallet = from}

\* usdcDepositContract.on('Transfer') with to = pool: the address lookup
UsdcDepositBegin(p, from, usdcAmount, event) ==
  /\ CanStart(p)
  /\ LET rec == [Idle EXCEPT !.kind = "deposit", !.asset = "usdc",
                             !.amt = usdcAmount, !.wallet = from,
                             !.tx = event]
         rows == LookupByWallet(from)
     IN Set(p, IF rows = {} THEN Finish(rec, "unmatched")
               ELSE [rec EXCEPT !.pc = "du_getUser",
                                !.id = CHOOSE id \in rows : TRUE])
  /\ nStarted' = nStarted + 1
  /\ UNCHANGED <<users, jackpot, session, sent, sched, init0>>

\* user = getUserByTelegramId(telegramId)
UsdcDepositGetUser(p) ==
  /\ procs[p].pc = "du_getUser"
  /\ Set(p, IF ~users[procs[p].id].registered
            THEN Finish(procs[p], "unmatched")
            ELSE [procs[p] EXCEPT !.pc = "du_credit",
                                  !.ubal = users[procs[p].id].usdc])
  /\ UNCHANGED <<users, jackpot, session, sent, sched, init0, nStarted>>

\* a credit that stores the deposited amount instead of adding it
UsdcDepositCredit_Overwrite(p) ==
  /\ procs[p].pc = "du_credit"
  /\ users' = [users EXCEPT ![procs[p].id].usdc = procs[p].amt]
  /\ Set(p, [procs[p] EXCEPT !.pc = "xp_get", !.result = "credited",
                             !.xpAdd = DepositXP])
  /\ UNCHANGED <<jackpot, session, sent, sched, init0, nStarted>>

\* updateUserUsdcBalance(telegramId, user.usdc_balance + usdcAmount)
UsdcDepositCredit(p) ==
  /\ procs[p].pc = "du_credit"
  /\ users' = [users EXCEPT
                 ![procs[p].id].usdc = procs[p].ubal + procs[p].amt]
  /\ Set(p, [procs[p] EXCEPT !.pc = "xp_get", !.result = "credited",
                             !.xpAdd = DepositXP])
  /\ UNCHANGED <<jackpot, session, sent, sched, init0, nStarted>>

\* position of a free slot among the free slots
Rank(p) == Cardinality({q \in Procs : Free(q) /\ q < p}) + 1

\* provider.on('block'): one lookup is issued for every transaction of the
\* confirmed block that pays the pool; the handler awaits none of them
ProviderOnBlock(txs) ==
  /\ Len(txs) <= Cardinality({p \in Procs : Free(p)})
  /\ nStarted + Len(txs) <= MaxOps
  /\ sched = "serial" => Quiescent
  /\ procs' = [p \in Procs |->
                 IF Free(p) /\ Rank(p) <= Len(txs)
                 THEN [Idle EXCEPT !.kind = "deposit", !.asset = "eth",
                                   !.pc = "de_lookup",
                                   !.amt = txs[Rank(p)].value,
                                   !.wallet = txs[Rank(p)].from,
                                   !.tx = txs[Rank(p)].hash]
                 ELSE procs[p]]
  /\ nStarted' = nStarted + Len(txs)
  /\ UNCHANGED <<users, jackpot, session, sent, sched, init0>>

\* callback of db.get(query, [tx.from])
EthDepositLookup(p) ==
  /\ procs[p].pc = "de_lookup"
  /\ LET rows == LookupByWallet(procs[p].wallet)
     IN Set(p, IF rows = {} THEN Finish(procs[p], "unmatched")
               ELSE [procs[p] EXCEPT !.pc = "de_getUser",
                                     !.id = CHOOSE id \in rows : TRUE])
  /\ UNCHANGED <<users, jackpot, session, sent, sched, init0, nStarted>>

\* user = getUserByTelegramId(telegramId)
EthDepositGetUser(p) ==
  /\ procs[p].pc = "de_getUser"
  /\ Set(p, IF ~users[procs[p].id].registered
            THEN Finish(procs[p], "unmatched")
            ELSE [procs[p] EXCEPT !.pc = "de_credit",
                                  !.ubal = users[procs[p].id].eth])
  /\ UNCHANGED <<users, jackpot, session, sent, sched, init0, nStarted>>

\* updateUserEthBalance(telegramId, user.eth_balance + ethAmount)
EthDepositCredit(p) ==
  /\ procs[p].pc = "de_credit"
  /\ users' = [users EXCEPT
                 ![procs[p].id].eth = procs[p].ubal + procs[p].amt]
  /\ Set(p, [procs[p] EXCEPT !.pc = "xp_get", !.result = "credited",
                             !.xpAdd = DepositXP])
  /\ UNCHANGED <<jackpot, session, sent, sched, init0, nStarted>>

\* ------------------------------------------------------------------ inputs
Stakes == BetAmounts \cap {10, 100}
WithdrawInputs == {0, 10, 50, 20000}
DepositAmounts == {10}
RegistrationInputs == {"a1", "a9", "bad"}
MaxBlockTxs == 2
\* the transactions of one block that pay the pool have distinct hashes
Blocks ==
  {txs \in UNION {[1..n -> [from : Addresses, value : DepositAmounts,
                            hash : TxHashes]] : n \in 1..MaxBlockTxs} :
     \A i, j \in DOMAIN txs : i # j => txs[i].hash # txs[j].hash}

\* ledgers the program can be in when the behaviour starts
InitUsdc == {20, 100}
InitPool == {0, 200}
InitSession ==
  {"none", "awaiting_usdc_withdrawal", "awaiting_eth_withdrawal"}
InitProgress == {<<1, 0>>, <<1, 95>>, <<10, 3840>>}

Row(id, usdc, eth, progress) ==
  [NoUserRow EXCEPT !.registered = TRUE, !.wallet = WalletOf(id),
                    !.usdc = usdc, !.eth = eth,
                    !.level = progress[1], !.xp = progress[2]]

LedgerFrom(Progress) ==
  /\ \E b \in InitUsdc, pr \in Progress :
       users = [id \in Callers |->
                  IF id = 1 THEN Row(1, b, 10, pr)
                  ELSE IF id \in Ids THEN Row(id, 100, 0, <<1, 0>>)
                  ELSE NoUserRow]
  /\ jackpot \in InitPool
  /\ procs = [p \in Procs |-> Idle]
  /\ \E st \in InitSession :
       session = [id \in Callers |-> IF id = 1 THEN st ELSE "none"]
  /\ sent = [a \in Addresses |-> [asset \in Assets |-> 0]]
  /\ init0 = [users |-> users, jackpot |-> jackpot]
  /\ nStarted = 0

InitLedger == LedgerFrom(InitProgress)

\* addUserXP as a function of the stored (level, xp) and the award
XPAwards == {0, 1, 5, 50, 300}
XPInputs == InitProgress \cup {<<1, 100>>}
InitXP == LedgerFrom(XPInputs) /\ sched = "interleaved"
InitXPSerial == LedgerFrom(XPInputs) /\ sched = "serial"

\* getXPForNextLevel as a function of the stored level
MaxLevel == 12
ThresholdInputs == {<<l, 0>> : l \in 1..MaxLevel}
InitThreshold == LedgerFrom(ThresholdInputs) /\ sched = "serial"

Init == InitLedger /\ sched = "interleaved"
InitSerial == InitLedger /\ sched = "serial"

\* addUserXP and applyLevelRewards, called by every handler that awards XP
XPStep(p) ==
  \/ AddUserXPGet(p) \/ AddUserXPSet(p)
  \/ RewardIsPoolFunded(p) \/ RewardGetUser(p) \/ RewardSetUser(p)
  \/ RewardGetJackpot(p) \/ RewardSetJackpot(p)

WagerStep(p) ==
  \/ \E id \in Callers, betAmount \in Stakes : HandleBetBegin(p, id, betAmount)
  \/ HandleBetDebit(p) \/ HandleBetGetJackpot(p) \/ HandleBetSetJackpot(p)
  \/ HandleBetCredit(p) \/ HandleBetPayPool(p) \/ HandleBetStats(p)

\* handleBet after its first read
WagerRun(p) ==
  \/ HandleBetDebit(p) \/ HandleBetGetJackpot(p) \/ HandleBetSetJackpot(p)
  \/ HandleBetCredit(p) \/ HandleBetPayPool(p) \/ HandleBetStats(p)

PlayData ==
  {"bet_usdc_5", "bet_usdc_10", "bet_usdc_100", "bet_usdc_1000",
   "bet_usdc_10000", "bet_usdc_7", "main_menu", "deposit"}

PlayStep(p) ==
  \/ \E id \in Callers, data \in PlayData : PlaySceneCallback(p, id, data)
  \/ WagerRun(p)

JackpotStep(p) ==
  \/ \E id \in Callers : JackpotBegin(p, id)
  \/ JackpotDebit(p) \/ JackpotGetJackpot(p) \/ JackpotSetJackpot(p)
  \/ JackpotReset(p) \/ JackpotCredit(p)

WithdrawStep(p) ==
  \/ \E id \in Callers, amount \in WithdrawInputs : WithdrawBegin(p, id, amount)
  \/ WithdrawTransfer(p) \/ WithdrawDebit(p)

DepositStep(p) ==
  \/ \E from \in Addresses, a \in DepositAmounts, event \in TxHashes :
       UsdcDepositBegin(p, from, a, event)
  \/ UsdcDepositGetUser(p) \/ UsdcDepositCredit(p)
  \/ EthDepositLookup(p) \/ EthDepositGetUser(p) \/ EthDepositCredit(p)

RegistrationStep(p) ==
  \E id \in Callers, walletAddress \in RegistrationInputs :
    RegistrationText(p, id, walletAddress)

NextWagers == \E p \in Procs : WagerStep(p) \/ XPStep(p)

\* wagers with a store whose calls can fail
NextWagerFailures ==
  \E p \in Procs : WagerStep(p) \/ XPStep(p) \/ HandleBetStoreFails(p)

\* the play scene with every callback data
NextPlay == \E p \in Procs : PlayStep(p) \/ XPStep(p)

NextJackpots == \E p \in Procs : JackpotStep(p) \/ XPStep(p)

NextBets == \E p \in Procs : WagerStep(p) \/ JackpotStep(p) \/ XPStep(p)

NextWithdrawals ==
  \/ \E p \in Procs : WithdrawStep(p)
  \/ \E id \in Ids, asset \in Assets : WithdrawSelect(id, asset)

\* the withdraw scene with its way back to the main menu
NextWithdrawFlow ==
  \/ \E p \in Procs : WithdrawStep(p) \/ \E id \in Ids : WithdrawMainMenu(p, id)
  \/ \E id \in Ids, asset \in Assets : WithdrawSelect(id, asset)

\* provider.on('block') for a block with several payments to the pool
ProviderOnBlockMany(txs) == Len(txs) >= 2 /\ ProviderOnBlock(txs)

\* confirmed blocks that hold several payments to the pool
NextBlocks ==
  \/ \E p \in Procs : \/ EthDepositLookup(p) \/ EthDepositGetUser(p)
                       \/ EthDepositCredit(p) \/ XPStep(p)
  \/ \E txs \in Blocks : ProviderOnBlockMany(txs)

NextXP ==
  \E p \in Procs :
    \/ \E id \in Ids, xp \in XPAwards : AddUserXPCall(p, id, xp)
    \/ XPStep(p)

\* the upsert next to wagers, which give the rows statistics and XP
NextUpsert ==
  \E p \in Procs :
    \/ \E id \in Callers, walletAddress \in Addresses :
         AddOrUpdateUserCall(p, id, walletAddress)
    \/ WagerStep(p) \/ XPStep(p)

NextRegistration ==
  \/ \E p \in Procs : RegistrationStep(p) \/ DepositStep(p) \/ XPStep(p)
  \/ \E txs \in Blocks : ProviderOnBlock(txs)

NextDeposits ==
  \/ \E p \in Procs : DepositStep(p) \/ XPStep(p)
  \/ \E txs \in Blocks : ProviderOnBlock(txs)

Next ==
  \/ \E p \in Procs :
       \/ WagerStep(p) \/ JackpotStep(p) \/ WithdrawStep(p) \/ DepositStep(p)
       \/ XPStep(p) \/ RegistrationStep(p)
  \/ \E id \in Ids, asset \in Assets : WithdrawSelect(id, asset)
  \/ \E txs \in Blocks : ProviderOnBlock(txs)

Spec == Init /\ [][Next]_vars
SpecWagers == InitSerial /\ [][NextWagers]_vars
SpecJackpots == InitSerial /\ [][NextJackpots]_vars
SpecBets == Init /\ [][NextBets]_vars
SpecWithdrawals == Init /\ [][NextWithdrawals]_vars
SpecDeposits == Init /\ [][NextDeposits]_vars
SpecDepositsSerial == InitSerial /\ [][NextDeposits]_vars
SpecRegistration == InitSerial /\ [][NextRegistration]_vars
SpecXP == InitXP /\ [][NextXP]_vars
SpecXPSerial == InitXPSerial /\ [][NextXP]_vars
SpecThreshold == InitThreshold /\ [][NextXP]_vars
SpecUpsert == InitSerial /\ [][NextUpsert]_vars
SpecBlocks == Init /\ [][NextBlocks]_vars
SpecWithdrawFlow == InitSerial /\ [][NextWithdrawFlow]_vars
SpecWagerFailures == InitSerial /\ [][NextWagerFailures]_vars
SpecPlay == InitSerial /\ [][NextPlay]_vars


\* ================================================================ properties
\* handler instances whose request and answer are recorded in procs
Visible == {p \in Procs : procs[p].kind # "idle"}

\* every handler of the behaviour has finished and is still recorded
HistoryVisible == Quiescent /\ nStarted = Cardinality(Visible)

Accepted(rec) ==
  rec.outcome \in {"win", "lose", "jackpot_offer", "pool_empty", "credited",
                   "withdrawn"}
Won(rec) == rec.outcome \in {"win", "jackpot_offer"}
RewardOf(rec) == IF rec.rewarded THEN 10 ELSE 0

\* what a finished handler reported to have done to the account's balance
Effect(rec, asset) ==
  IF ~Accepted(rec) THEN 0
  ELSE IF rec.kind \in {"bet", "jackpot"}
       THEN IF asset = "usdc"
            THEN RewardOf(rec) - rec.amt + (IF Won(rec) THEN rec.paid ELSE 0)
            ELSE 0
  ELSE IF rec.kind = "deposit"
       THEN (IF asset = rec.asset THEN rec.amt ELSE 0)
            + (IF asset = "usdc" THEN RewardOf(rec) ELSE 0)
  ELSE IF rec.kind = "withdraw" /\ asset = rec.asset THEN 0 - rec.amt
  ELSE 0

RECURSIVE SumEffects(_, _, _)
SumEffects(S, id, asset) ==
  IF S = {} THEN 0
  ELSE LET p == CHOOSE q \in S : TRUE
       IN (IF procs[p].id = id THEN Effect(procs[p], asset) ELSE 0)
          + SumEffects(S \ {p}, id, asset)

RECURSIVE TotalUsdc(_, _)
TotalUsdc(S, table) ==
  IF S = {} THEN 0
  ELSE LET id == CHOOSE i \in S : TRUE
       IN table[id].usdc + TotalUsdc(S \ {id}, table)

Min(a, b) == IF a < b THEN a ELSE b

\* C1: in every reachable state, under any interleaving of the handlers,
\* every account's stable-coin balance and native-coin balance is >= 0.
C1_BalancesNonNegative ==
  \A id \in Ids : users[id].usdc >= 0 /\ users[id].eth >= 0

\* a wager has debited an account to 0 while a withdrawal of the same
\* account is in flight
C1_Witness ==
  \E p, q \in Procs :
    /\ procs[p].kind = "bet" /\ Active(p)
    /\ procs[q].kind = "withdraw" /\ Active(q)
    /\ procs[p].id = procs[q].id
    /\ users[procs[p].id].usdc = 0

\* C2: in every reachable state the pool balance is >= 0; a payout or reward
\* the pool cannot cover is refused.
C2_PoolNonNegative == jackpot >= 0

\* C3: regular wagers that each run to completion, level rewards included,
\* leave the sum of all stable-coin balances plus the pool unchanged.
C3_WagersConserveTotal ==
  Quiescent =>
    TotalUsdc(Ids, users) + jackpot = TotalUsdc(Ids, init0.users) + init0.jackpot

\* two wagers have run, one of them won and one of them was granted a level
\* reward
C3_Witness ==
  /\ Quiescent /\ nStarted = 2
  /\ \E p \in Procs : procs[p].kind = "bet" /\ procs[p].rewarded
                      /\ Won(procs[p])

\* C4: N concurrent wagers of stake S from an account holding N*S all
\* succeed, and when none of them pays anything back the balance is 0.
C4_ConcurrentWagersAllDebited ==
  \A id \in Ids, S \in Stakes :
    ( /\ HistoryVisible /\ nStarted = MaxProcs
      /\ init0.users[id].usdc = MaxProcs * S
      /\ \A p \in Procs : /\ procs[p].kind = "bet" /\ procs[p].id = id
                          /\ procs[p].amt = S )
    => /\ \A p \in Procs : Accepted(procs[p])
       /\ (\A p \in Procs : procs[p].outcome = "lose" /\ ~procs[p].rewarded)
            => users[id].usdc = 0

\* what a finished handler leaves of the pool when it runs alone
PoolApply(rec, pool) ==
  IF ~Accepted(rec) \/ rec.kind = "withdraw" THEN pool
  ELSE IF rec.kind = "bet"
       THEN pool + rec.amt - (IF Won(rec) THEN rec.paid ELSE 0) - RewardOf(rec)
  ELSE IF rec.kind = "jackpot"
       THEN (IF rec.outcome = "win" THEN 0 ELSE pool + rec.amt) - RewardOf(rec)
  ELSE pool - RewardOf(rec)

RECURSIVE ApplyInOrder(_, _, _)
ApplyInOrder(order, i, pool) ==
  IF i > Len(order) THEN pool
  ELSE ApplyInOrder(order, i + 1, PoolApply(procs[order[i]], pool))

Orders(S) ==
  {o \in [1..Cardinality(S) -> S] : \A i, j \in DOMAIN o : i # j => o[i] # o[j]}

\* C5: the final pool balance is the result of applying the pool operations
\* of the handlers one at a time in some order.
C5_PoolLinearizable ==
  HistoryVisible =>
    \E o \in Orders(Visible) : jackpot = ApplyInOrder(o, 1, init0.jackpot)

JackpotBets == {p \in Visible : procs[p].kind = "jackpot" /\ Accepted(procs[p])}

RECURSIVE SumPaid(_)
SumPaid(S) ==
  IF S = {} THEN 0
  ELSE LET p == CHOOSE q \in S : TRUE
       IN (IF procs[p].outcome = "win" THEN procs[p].paid ELSE 0)
          + SumPaid(S \ {p})

\* C6: the jackpot wins of a behaviour of jackpot bets never credit more in
\* total than the pool held: its initial balance and the stakes added to it.
C6_JackpotNeverOverpaid ==
  (HistoryVisible /\ \A p \in Visible : procs[p].kind = "jackpot")
    => SumPaid(JackpotBets)
         <= init0.jackpot + JackpotStake * Cardinality(JackpotBets)

\* C7: withdrawals of one account never dispatch more of an asset on-chain
\* than the account held of it before them.
C7_WithdrawalsWithinBalance ==
  (/\ nStarted = Cardinality(Visible)
   /\ \A p \in Visible : procs[p].kind = "withdraw")
    => \A id \in Ids, asset \in Assets :
         sent[init0.users[id].wallet][asset] <= init0.users[id][asset]

\* C8: a deposit credited while a wager, jackpot bet or withdrawal of the
\* same account runs is part of the final balance: the balance is not below
\* the initial one plus what every handler reported to have added or removed.
C8_DepositNeverLost ==
  \A id \in Ids, asset \in Assets :
    ( /\ HistoryVisible
      /\ Cardinality({p \in Visible : procs[p].kind = "deposit"}) = 1
      /\ \E p \in Visible : /\ procs[p].kind = "deposit"
                            /\ procs[p].outcome = "credited"
                            /\ procs[p].id = id /\ procs[p].asset = asset )
    => users[id][asset]
         >= init0.users[id][asset] + SumEffects(Visible, id, asset)

\* the first handler of the behaviour was a regular wager that was resolved
FirstWager(p) ==
  /\ nStarted = 1 /\ procs[p].pc = "done" /\ procs[p].kind = "bet"
  /\ procs[p].outcome \in {"win", "jackpot_offer", "lose"}

\* 3.6 * s and whether the pool funds it once the stake is added
TimesThreePointSix(s) == (36 * s) \div 10
PoolFunds(p) ==
  init0.jackpot + procs[p].amt >= TimesThreePointSix(procs[p].amt)

\* C9 as stated: a winning wager leaves the account at b - s + 3.6 s and the
\* pool at p + s - 3.6 s, a losing one at b - s and p + s.
C9_WagerSettlement ==
  \A p \in Procs :
    (FirstWager(p) /\ (Won(procs[p]) => PoolFunds(p))) =>
      LET id == procs[p].id
          s == procs[p].amt
          gain == IF Won(procs[p]) THEN TimesThreePointSix(s) ELSE 0
      IN /\ users[id].usdc = init0.users[id].usdc - s + gain
         /\ jackpot = init0.jackpot + s - gain

\* C9 amended: the same, plus the level reward of 10 that moves from the
\* pool to the account when the wager's experience award triggers a level-up
\* whose reward is granted.
C9_WagerSettlementWithReward ==
  \A p \in Procs :
    (FirstWager(p) /\ (Won(procs[p]) => PoolFunds(p))) =>
      LET id == procs[p].id
          s == procs[p].amt
          gain == IF Won(procs[p]) THEN TimesThreePointSix(s) ELSE 0
          r == IF procs[p].rewarded THEN 10 ELSE 0
      IN /\ users[id].usdc = init0.users[id].usdc - s + gain + r
         /\ jackpot = init0.jackpot + s - gain - r

\* a winning wager that the pool funds has also been granted a level reward
C9_Witness ==
  \E p \in Procs : /\ FirstWager(p) /\ Won(procs[p]) /\ PoolFunds(p)
                   /\ procs[p].rewarded

\* C10: on a winning wager the amount credited to the account equals the
\* amount debited from the pool and is min(3.6 * stake, pool after the stake
\* was credited).
C10_PayoutCapped ==
  \A p \in Procs :
    (FirstWager(p) /\ Won(procs[p])) =>
      LET id == procs[p].id
          s == procs[p].amt
          r == IF procs[p].rewarded THEN 10 ELSE 0
          credited == users[id].usdc - r - (init0.users[id].usdc - s)
          debited == (init0.jackpot + s) - (jackpot + r)
      IN /\ credited = debited
         /\ credited = Min(TimesThreePointSix(s), init0.jackpot + s)

\* the first handler of the behaviour was a jackpot bet and it has returned
FirstJackpot(p) ==
  nStarted = 1 /\ procs[p].pc = "done" /\ procs[p].kind = "jackpot"

\* C11: a winning jackpot bet by an account holding b >= 100, with the pool
\* at P > 0 before the stake is added, leaves the account at b - 100 + P and
\* the pool at exactly 0.
C11_JackpotWinPaysPoolBeforeStake ==
  \A p \in Procs :
    (FirstJackpot(p) /\ procs[p].result = "win" /\ init0.jackpot > 0) =>
      LET id == procs[p].id
      IN /\ init0.users[id].usdc >= 100
         /\ users[id].usdc = init0.users[id].usdc - 100 + init0.jackpot
         /\ jackpot = 0

\* a jackpot bet won a pool of 200 and its experience award raised the level
C11_Witness ==
  \E p \in Procs :
    /\ FirstJackpot(p) /\ procs[p].outcome = "win" /\ init0.jackpot = 200
    /\ procs[p].paid = 200
    /\ users[procs[p].id].level > init0.users[procs[p].id].level

\* C12: a jackpot bet that draws a win while the pool was empty before the
\* stake ends in the distinct result "pool empty": the account stays debited
\* by 100, nothing is paid, and the pool keeps the stake instead of being
\* reset.
C12_EmptyPoolWinIsUnfunded ==
  \A p \in Procs :
    (FirstJackpot(p) /\ procs[p].result = "win" /\ init0.jackpot <= 0) =>
      LET id == procs[p].id
      IN /\ procs[p].outcome = "pool_empty"
         /\ procs[p].outcome \notin {"win", "lose"}
         /\ procs[p].paid = 0
         /\ users[id].usdc = init0.users[id].usdc - 100
         /\ jackpot = init0.jackpot + 100

\* a jackpot bet drew a win on an empty pool
C12_Witness ==
  \E p \in Procs :
    /\ FirstJackpot(p) /\ procs[p].result = "win" /\ init0.jackpot = 0
    /\ procs[p].outcome = "pool_empty"

\* a regular wager or a jackpot bet that was rejected by a validation
RejectedBet(rec) ==
  /\ rec.kind \in {"bet", "jackpot"} /\ rec.pc = "done"
  /\ rec.outcome \in {"not_registered", "insufficient"}

\* C13: a regular wager or jackpot bet requested by an unregistered identity,
\* or with a stake above the account's stable-coin balance (jackpot: a
\* balance below 100), is rejected in the step that receives it, and that
\* step changes no balance, statistic, XP, level or the pool.
C13_RejectedBetsMutateNothing ==
  [][\A p \in Procs :
       ( /\ nStarted' = nStarted + 1 /\ procs'[p] # procs[p]
         /\ procs'[p].kind \in {"bet", "jackpot"}
         /\ \/ ~users[procs'[p].id].registered
            \/ users[procs'[p].id].usdc < procs'[p].amt )
       => /\ RejectedBet(procs'[p])
          /\ users' = users /\ jackpot' = jackpot]_vars

\* a jackpot bet was rejected for a balance below 100 while a wager of the
\* same account, which had debited its stake, was still running
C13_Witness ==
  \E p, q \in Procs :
    /\ procs[q].kind = "jackpot" /\ procs[q].outcome = "insufficient"
    /\ procs[p].kind = "bet" /\ Active(p) /\ procs[p].id = procs[q].id
    /\ users[procs[q].id].usdc < init0.users[procs[q].id].usdc

\* the per-transaction limit the claims state for an asset
StatedLimit(asset) == IF asset = "usdc" THEN 10000 ELSE 100

\* C14: a withdrawal request whose amount exceeds the per-transaction limit
\* (10000 stable-coin, 100 native-coin) or the account's balance of that
\* asset is rejected in the step that receives it: no balance is written
\* and no on-chain transfer is requested.
C14_OversizedWithdrawalRejected ==
  [][\A p \in Procs :
       ( /\ nStarted' = nStarted + 1 /\ procs'[p] # procs[p]
         /\ procs'[p].kind = "withdraw" /\ procs'[p].asset \in Assets
         /\ procs'[p].amt > 0
         /\ \/ procs'[p].amt > StatedLimit(procs'[p].asset)
            \/ users[procs'[p].id][procs'[p].asset] < procs'[p].amt )
       => /\ procs'[p].pc = "done"
          /\ procs'[p].outcome \in {"over_limit", "insufficient"}
          /\ users' = users /\ sent' = sent]_vars

\* a withdrawal of 50 was rejected for an insufficient balance and nothing
\* was sent or debited
C14_Witness ==
  \E p \in Procs :
    /\ procs[p].kind = "withdraw" /\ procs[p].outcome = "insufficient"
    /\ procs[p].amt = 50 /\ users[procs[p].id][procs[p].asset] < 50
    /\ users = init0.users
    /\ \A a \in Addresses, asset \in Assets : sent[a][asset] = 0

\* C15: in every withdrawal the debit of the requested amount is stored
\* before the on-chain transfer is requested: what has been dispatched to an
\* account's address never exceeds what has been debited from the account.
C15_DebitBeforeTransfer ==
  \A id \in Ids, asset \in Assets :
    sent[init0.users[id].wallet][asset]
      <= init0.users[id][asset] - users[id][asset]

\* the first handler of the behaviour was a withdrawal and it has returned
FirstWithdrawal(p) ==
  nStarted = 1 /\ procs[p].pc = "done" /\ procs[p].kind = "withdraw"

\* C16: a stable-coin withdrawal of amount a debits the account by exactly a
\* and transfers a * 0.99 to the user's address (a * 0.01 goes to the
\* operator): the user never receives the full a.
C16_WithdrawalFeeSplit ==
  \A p \in Procs :
    ( /\ FirstWithdrawal(p) /\ procs[p].outcome = "withdrawn"
      /\ procs[p].asset = "usdc" )
    => LET id == procs[p].id
           a == procs[p].amt
       IN /\ users[id].usdc = init0.users[id].usdc - a
          /\ 100 * sent[init0.users[id].wallet]["usdc"] = 99 * a
          /\ sent[init0.users[id].wallet]["usdc"] < a

\* C17: a withdrawal whose on-chain transfer fails leaves the account
\* debited by the requested amount (balance = balance before the withdrawal
\* minus the amount) and reports the failure.
C17_FailedTransferStaysDebited ==
  \A p \in Procs :
    (FirstWithdrawal(p) /\ procs[p].outcome = "transfer_failed")
    => users[procs[p].id][procs[p].asset]
         = init0.users[procs[p].id][procs[p].asset] - procs[p].amt

\* the only handler of the behaviour was a deposit from an address bound to
\* an account, and it has returned
FirstBoundDeposit(p) ==
  /\ nStarted = 1 /\ procs[p].pc = "done" /\ procs[p].kind = "deposit"
  /\ \E id \in Ids : /\ init0.users[id].registered
                      /\ init0.users[id].wallet = procs[p].wallet

Balances(row) == <<row.usdc, row.eth>>

Unbound(rec) ==
  /\ rec.kind = "deposit"
  /\ \A id \in Ids : ~(/\ init0.users[id].registered
                        /\ init0.users[id].wallet = rec.wallet)

\* C19: deposit events whose source address matches no account are dropped:
\* every one of them returns normally, and no balance, XP, level or the pool
\* has changed.
C19_UnmatchedDepositDropped ==
  (HistoryVisible /\ \A p \in Visible : Unbound(procs[p]))
    => /\ \A p \in Visible : procs[p].outcome = "unmatched"
       /\ users = init0.users /\ jackpot = init0.jackpot

\* the two transactions of one block, both from an unbound address, were
\* dropped
C19_Witness ==
  /\ HistoryVisible /\ nStarted = 2
  /\ \A p \in Procs : /\ Unbound(procs[p]) /\ procs[p].asset = "eth"
                       /\ procs[p].outcome = "unmatched"

\* C20: the same on-chain transfer delivered twice is credited once: the
\* account holds its initial balance plus the transfer's amount (and the
\* level rewards granted to the two deliveries).
C20_DuplicateDepositCreditedOnce ==
  \A p, q \in Procs :
    ( /\ HistoryVisible /\ nStarted = 2 /\ p # q
      /\ procs[p].kind = "deposit" /\ procs[q].kind = "deposit"
      /\ procs[p].tx = procs[q].tx /\ procs[p].asset = procs[q].asset
      /\ procs[p].wallet = procs[q].wallet /\ procs[p].amt = procs[q].amt
      /\ procs[p].outcome = "credited" /\ procs[q].outcome = "credited" )
    => LET id == procs[p].id
           asset == procs[p].asset
       IN users[id][asset]
            <= init0.users[id][asset] + procs[p].amt
               + (IF asset = "usdc"
                  THEN RewardOf(procs[p]) + RewardOf(procs[q]) ELSE 0)

\* a callback of the block handler that has not returned yet
PassInFlight(p) == procs[p].kind = "deposit" /\ procs[p].asset = "eth" /\ Active(p)

\* C21: the block handler never starts a reconciliation pass while the
\* lookups and credit writes of a previous pass are still in flight.
C21_BlockPassesDoNotOverlap ==
  [][(\E p \in Procs : procs'[p].pc = "de_lookup" /\ procs[p].pc # "de_lookup")
       => \A q \in Procs : ~PassInFlight(q)]_vars

Threshold(level) == (100 * Pow(3, level - 1)) \div Pow(2, level - 1)

\* C23: addExperience(id, a) on stored (xp, level) returns leveledUp = true
\* exactly when xp + a >= threshold(level); when one level is gained,
\* newLevel = level + 1 and newXp = xp + a - threshold(level); the returned
\* values are the ones persisted.
C23_AddExperienceResult ==
  \A p \in Procs :
    (nStarted = 1 /\ procs[p].kind = "xp") =>
      LET id == procs[p].id
          a == procs[p].amt
          x == init0.users[id].xp
          l == init0.users[id].level
          leveled == x + a >= Threshold(l)
      IN /\ procs[p].pc = "xp_set" =>
              /\ procs[p].levelUp <=> leveled
              /\ procs[p].newLevel = l + 1
                   => procs[p].newXP = x + a - Threshold(l)
              /\ ~leveled => procs[p].newLevel = l /\ procs[p].newXP = x + a
         /\ procs[p].pc \notin {"xp_get", "xp_set"} =>
              /\ leveled <=> users[id].level > l
              /\ users[id].level = l + 1
                   => users[id].xp = x + a - Threshold(l)
              /\ users[id].level = l => users[id].xp = x + a

\* level 1 with xp 100, awarded 1 XP: level 2 and xp 1 are stored
C23_Witness ==
  \E p \in Procs :
    /\ nStarted = 1 /\ procs[p].kind = "xp" /\ procs[p].pc = "done"
    /\ procs[p].amt = 1
    /\ init0.users[procs[p].id].level = 1 /\ init0.users[procs[p].id].xp = 100
    /\ users[procs[p].id].level = 2 /\ users[procs[p].id].xp = 1

InRange(row) == 0 <= row.xp /\ row.xp < Threshold(row.level)

\* C24: when every account starts with 0 <= xp < threshold(level), every
\* account satisfies it in every reachable state, also when the calls for
\* one account interleave and when one award exceeds several thresholds.
C24_XpBelowThreshold ==
  (\A id \in Ids : InRange(init0.users[id]))
    => \A id \in Ids : InRange(users[id])

\* one award raised the level by two
C24_Witness ==
  \E p \in Procs :
    /\ nStarted = 1 /\ procs[p].kind = "xp" /\ procs[p].pc = "done"
    /\ InRange(init0.users[procs[p].id])
    /\ users[procs[p].id].level >= init0.users[procs[p].id].level + 2

\* a finished XP award that raised the level
LeveledUp(p) ==
  /\ procs[p].kind = "xp" /\ procs[p].pc = "done"
  /\ procs[p].notice \in {"congratulations", "insufficient_pool", "bonus"}

\* C25: when a level-up occurs and the pool holds less than the reward of
\* 10, the new level and XP written by that call stay stored, no balance
\* and no pool amount is changed by the reward step, and the notice is the
\* one for a skipped reward, never the one for a granted reward.
C25_UnfundedRewardSkipped ==
  \A p \in Procs :
    (LeveledUp(p) /\ init0.jackpot < BonusUSDC) =>
      LET id == procs[p].id
          l == init0.users[id].level
          x == init0.users[id].xp
      IN /\ nStarted = 1 =>
              /\ users[id].level > l
              /\ users[id].level = l + 1
                   => users[id].xp = x + procs[p].amt - Threshold(l)
              /\ HasUsdcReward(users[id].level)
                   => procs[p].notice = "insufficient_pool"
         /\ InRange(init0.users[id]) => InRange(users[id])
         /\ ~procs[p].rewarded
         /\ procs[p].notice # "bonus"
         /\ jackpot = init0.jackpot
         /\ \A other \in Ids : users[other].usdc = init0.users[other].usdc

\* a level-up to level 2 while the pool is empty
C25_Witness ==
  \E p \in Procs :
    /\ LeveledUp(p) /\ nStarted = 1
    /\ init0.jackpot = 0
    /\ init0.users[procs[p].id].level = 1
    /\ users[procs[p].id].level = 2
    /\ procs[p].notice = "insufficient_pool"

\* C26: every level-up, whatever the new level, requests the reward: when
\* the pool holds at least 10, the pool is debited by exactly 10 and the
\* account's stable-coin balance is credited by exactly 10 (here for the
\* level-up caused by a deposit's experience award).
C26_EveryLevelUpRewarded ==
  \A p \in Procs :
    LET id == procs[p].id
    IN (/\ FirstBoundDeposit(p) /\ procs[p].outcome = "credited"
        /\ users[id].level > init0.users[id].level
        /\ init0.jackpot >= BonusUSDC) =>
         /\ procs[p].rewarded
         /\ jackpot = init0.jackpot - BonusUSDC
         /\ users[id].usdc
              = init0.users[id].usdc + BonusUSDC
                + (IF procs[p].asset = "usdc" THEN procs[p].amt ELSE 0)

Max(a, b) == IF a >= b THEN a ELSE b

\* C27: every regular wager that passed validation and had its stake
\* debited has, once its handler returned, updated the statistics exactly
\* once: count + 1, volume + stake, win count + 1 and won volume + payout
\* on a win, loss count + 1 and lost volume + stake on a loss, largest
\* wager = max(previous, stake).
C27_StatsUpdatedOnce ==
  \A p \in Procs :
    FirstWager(p) =>
      LET id == procs[p].id
          was == init0.users[id]
          now == users[id]
          stake == procs[p].amt
      IN /\ now.total_bets = was.total_bets + 1
         /\ now.total_amount_bet = was.total_amount_bet + stake
         /\ now.highest_single_bet = Max(was.highest_single_bet, stake)
         /\ Won(procs[p]) =>
              /\ now.total_wins = was.total_wins + 1
              /\ now.total_usdc_won = was.total_usdc_won + procs[p].paid
         /\ ~Won(procs[p]) =>
              /\ now.total_losses = was.total_losses + 1
              /\ now.total_usdc_lost = was.total_usdc_lost + stake

\* C28: when a store call fails in the middle of a wager, no partial state
\* of that wager remains: the account and pool balances equal their
\* pre-wager values.
C28_FailedWagerLeavesNoPartialState ==
  \A p \in Procs :
    (/\ nStarted = 1 /\ procs[p].kind = "bet" /\ procs[p].pc = "done"
     /\ procs[p].outcome = "error") =>
       /\ users[procs[p].id].usdc = init0.users[procs[p].id].usdc
       /\ jackpot = init0.jackpot

\* C29: a regular wager is only ever executed with a stake in
\* {5, 10, 100, 1000, 10000}; any other request in the play flow is
\* answered without changing any account or the pool.
C29_OnlyAllowedStakes ==
  /\ \A p \in Procs :
        procs[p].kind = "bet" => procs[p].amt \in {5, 10, 100, 1000, 10000}
  /\ \A p \in Procs :
        (nStarted = 1 /\ procs[p].kind = "play") =>
          /\ procs[p].pc = "done"
          /\ procs[p].outcome \in {"unknown_action", "main_menu"}
          /\ users = init0.users
          /\ jackpot = init0.jackpot

\* a request for a stake of 7 was answered as an unknown action
C29_Witness ==
  \E p \in Procs :
    /\ nStarted = 1 /\ procs[p].kind = "play"
    /\ procs[p].data = "bet_usdc_7"
    /\ procs[p].outcome = "unknown_action"
    /\ users = init0.users /\ jackpot = init0.jackpot

C31_NoPartialWagerVisible ==
  (nStarted = 1 /\ \E p \in Procs : procs[p].kind = "bet") =>
    TotalUsdc(Ids, users) + jackpot
      = TotalUsdc(Ids, init0.users) + init0.jackpot

\* C32: a jackpot bet run to completion (loss, win, win with an empty pool)
\* leaves the sum of all stable-coin balances plus the pool unchanged.
C32_JackpotConservesTotal ==
  (\E p \in Procs : FirstJackpot(p)) =>
    TotalUsdc(Ids, users) + jackpot
      = TotalUsdc(Ids, init0.users) + init0.jackpot

\* the stored (xp, level) after one award of a to the row
Awarded(row, a) == LevelLoop(row.xp + a, row.level, FALSE)

\* C33: every resolved regular wager awards experience exactly once, 20 XP
\* on a win and 5 XP on a loss, whatever the resulting balance is.
C33_WagerAwardsXpOnce ==
  \A p \in Procs :
    FirstWager(p) =>
      LET id == procs[p].id
          r == Awarded(init0.users[id], IF Won(procs[p]) THEN 20 ELSE 5)
      IN users[id].xp = r.newXP /\ users[id].level = r.newLevel

\* the first thresholds as the specification lists them
ListedThreshold(l) ==
  CASE l = 1 -> 100 [] l = 2 -> 150 [] l = 3 -> 225 [] l = 4 -> 337
    [] l = 5 -> 506 [] OTHER -> getXPForNextLevel(l)

\* C34: the threshold of every stored level l >= 1 is at least 100 and
\* below the threshold of level l + 1, and the first five thresholds are
\* 100, 150, 225, 337, 506.
C34_ThresholdIncreasing ==
  \A id \in Ids :
    LET l == users[id].level
    IN /\ l >= 1
       /\ getXPForNextLevel(l) >= 100
       /\ getXPForNextLevel(l + 1) > getXPForNextLevel(l)
       /\ getXPForNextLevel(l) = ListedThreshold(l)

\* addUserXP has compared an award with the threshold 506 of level 5
C34_Witness ==
  \E p \in Procs :
    /\ procs[p].kind = "xp" /\ procs[p].pc = "xp_set"
    /\ users[procs[p].id].level = 5
    /\ getXPForNextLevel(users[procs[p].id].level) = 506
    /\ ~procs[p].levelUp

\* C39: the level-up loop of addUserXP ends after at most (xp + award) / 100
\* iterations with the remaining XP below the next threshold, for every
\* stored xp >= 0, award >= 0 and level >= 1.
C39_LevelLoopTerminates ==
  \A p \in Procs :
    (nStarted = 1 /\ procs[p].kind = "xp" /\ procs[p].pc = "xp_set") =>
      LET row == init0.users[procs[p].id]
      IN /\ procs[p].newLevel >= row.level
         /\ procs[p].newLevel - row.level <= (row.xp + procs[p].amt) \div 100
         /\ procs[p].newXP >= 0
         /\ procs[p].newXP < Threshold(procs[p].newLevel)

\* the loop ran twice on an award of 300
C39_Witness ==
  \E p \in Procs :
    /\ nStarted = 1 /\ procs[p].kind = "xp" /\ procs[p].pc = "xp_set"
    /\ procs[p].amt = 300
    /\ procs[p].newLevel = init0.users[procs[p].id].level + 2

\* an account as the schema defaults create it
FreshAccount(walletAddress) ==
  [registered |-> TRUE, wallet |-> walletAddress, eth |-> 0, usdc |-> 0,
   xp |-> 0, level |-> 1, total_bets |-> 0, total_amount_bet |-> 0,
   total_wins |-> 0, total_losses |-> 0, total_usdc_won |-> 0,
   total_usdc_lost |-> 0, highest_single_bet |-> 0]

\* C35: the upsert creates, for an identity without an account, an account
\* with both balances 0, all statistics 0, xp 0 and level 1; for an identity
\* with an account it changes only the bound address; no other account
\* changes.
C35_UpsertFrame ==
  [][\A p \in Procs :
       (/\ nStarted' = nStarted + 1 /\ procs'[p] # procs[p]
        /\ procs'[p].kind = "upsert") =>
         LET id == procs'[p].id
             w == procs'[p].wallet
         IN /\ \A other \in Callers \ {id} : users'[other] = users[other]
            /\ procs'[p].outcome = "error" => users'[id] = users[id]
            /\ procs'[p].outcome = "stored" =>
                 users'[id] = IF users[id].registered
                              THEN [users[id] EXCEPT !.wallet = w]
                              ELSE FreshAccount(w)]_vars

\* an account that had wagered was bound to another address and kept its
\* statistics
C35_Witness ==
  \E p \in Procs :
    /\ nStarted = 2 /\ procs[p].kind = "upsert"
    /\ procs[p].outcome = "stored"
    /\ init0.users[procs[p].id].registered
    /\ users[procs[p].id].wallet = procs[p].wallet
    /\ users[procs[p].id].wallet # init0.users[procs[p].id].wallet
    /\ users[procs[p].id].total_bets = 1

CountsAgree(row) == row.total_bets = row.total_wins + row.total_losses

\* C36: in every reachable state each account has
\* total_bets = total_wins + total_losses, and no step lowers an account's
\* highest_single_bet.
C36_StatsConsistent ==
  /\ [](\A id \in Callers : CountsAgree(users[id]))
  /\ [][\A id \in Callers :
          users'[id].highest_single_bet >= users[id].highest_single_bet]_vars

\* two interleaved wagers of one account were both counted, one lost and
\* one won
C36_Witness ==
  \E id \in Ids :
    /\ users[id].total_bets = 2
    /\ users[id].total_wins = 1 /\ users[id].total_losses = 1
    /\ users[id].highest_single_bet = 100
    /\ \A p \in Procs : procs[p].kind = "bet" /\ procs[p].id = id

\* C37: once the user has left the withdraw scene via 'main_menu', the
\* session state is no longer an awaiting one, and the next text message of
\* that user does not trigger a withdrawal.
C37_TextOutsideFlowIgnored ==
  [][\A p \in Procs :
       (/\ nStarted = 1 /\ nStarted' = 2
        /\ procs[p].kind = "withdraw_menu" /\ procs[p].pc = "done"
        /\ procs'[p].kind = "withdraw" /\ procs'[p].id = procs[p].id) =>
         /\ AwaitedAsset(session[procs[p].id]) = "none"
         /\ procs'[p].outcome = "unrecognized"]_vars

\* C38: two native-coin deposits from the same registered address in the
\* same confirmed block are both credited: once the block's callbacks have
\* finished, the account's native-coin balance has grown by the sum of the
\* two amounts.
C38_SameBlockDepositsBothCredited ==
  \A p, q \in Procs :
    ( /\ HistoryVisible /\ nStarted = 2 /\ p # q
      /\ procs[p].kind = "deposit" /\ procs[q].kind = "deposit"
      /\ procs[p].asset = "eth" /\ procs[q].asset = "eth"
      /\ procs[p].tx # procs[q].tx
      /\ procs[p].wallet = procs[q].wallet
      /\ \E id \in Ids : init0.users[id].wallet = procs[p].wallet )
    => LET id == CHOOSE i \in Ids : init0.users[i].wallet = procs[p].wallet
       IN /\ procs[p].outcome = "credited" /\ procs[q].outcome = "credited"
          /\ users[id].eth = init0.users[id].eth + procs[p].amt + procs[q].amt
====
